---- MODULE Spec2Model ----
(***************************************************************************)
(* Model of python-shell-scripts/parse.py: the update tree (DictUpdate,    *)
(* ListUpdate, ValueUpdate) and NodeVisitor, the libcst transformer that   *)
(* reconciles a dict/list literal against an update tree.                  *)
(*                                                                         *)
(* A libcst node is a record.  Source text is a sequence of tokens, each a *)
(* record [c, w] of its characters and their number, so that two texts are *)
(* byte-identical iff the token sequences are equal and len() is the sum   *)
(* of the widths.  A literal is assumed to sit in a top-level statement,   *)
(* where ParenthesizedWhitespace.indent renders nothing.                   *)
(***************************************************************************)
EXTENDS Integers, Sequences, FiniteSets, TLC

\* --------------------------------------------------------------- text
Tok(c, w) == [c |-> c, w |-> w]
NL == Tok("\n", 1)
Spaces(n) == [i \in 1..n |-> Tok(" ", 1)]

RECURSIVE TextLen(_)
TextLen(t) == IF t = <<>> THEN 0 ELSE Head(t).w + TextLen(Tail(t))

\* max(len(l) for l in text.splitlines()), cur = length of the open line
RECURSIVE MaxLine(_, _, _)
MaxLine(t, cur, best) ==
    IF t = <<>> THEN (IF cur > best THEN cur ELSE best)
    ELSE IF Head(t) = NL
         THEN MaxLine(Tail(t), 0, IF cur > best THEN cur ELSE best)
         ELSE MaxLine(Tail(t), cur + Head(t).w, best)

\* --------------------------------------------------------- whitespace
\* cst.SimpleWhitespace(" " * n)
SimpleWhitespace(n) == [par |-> FALSE, first |-> <<>>, last |-> n]
\* cst.ParenthesizedWhitespace(first_line, indent=True, last_line=" " * n);
\* first holds what stands before the newline (an inline comment)
ParenthesizedWhitespace(first, n) == [par |-> TRUE, first |-> first, last |-> n]

WsCode(ws) == IF ws.par THEN ws.first \o <<NL>> \o Spaces(ws.last)
              ELSE Spaces(ws.last)

\* ------------------------------------------------------------- commas
\* cst.MaybeSentinel.DEFAULT
DefaultComma == [present |-> FALSE, wsb |-> SimpleWhitespace(0),
                 wsa |-> SimpleWhitespace(0)]
\* cst.Comma(whitespace_before, whitespace_after)
Comma(wsb, wsa) == [present |-> TRUE, wsb |-> wsb, wsa |-> wsa]

\* --------------------------------------------------------------- keys
\* The text of a key: its quote character ("" for a bare identifier) and
\* the characters between the quotes.  Two key texts are the same Python
\* string iff the records are equal.
KeyText(q, name) == [q |-> q, name |-> name]
EmptyText == KeyText("", Tok("", 0))

NoKey == [kind |-> "None", value |-> EmptyText]
\* cst.parse_expression(text) for the text of an identifier or a string
parse_expression(text) ==
    IF text.q = "" THEN [kind |-> "Name", value |-> text]
    ELSE [kind |-> "SimpleString", value |-> text]
\* SimpleString.raw_value: the text without prefix and quotes
raw_value(expr) == KeyText("", expr.value.name)

KeyCode(key) ==
    IF key.kind = "None" THEN <<>>
    ELSE (IF key.value.q = "" THEN <<key.value.name>>
          ELSE <<Tok(key.value.q, 1), key.value.name, Tok(key.value.q, 1)>>)
         \o <<Tok(":", 1), Tok(" ", 1)>>

\* -------------------------------------------------------------- nodes
Scalar(txt) == [type |-> "Scalar", txt |-> txt]
Collection(type, lws, elements, rws) ==
    [type |-> type, lws |-> lws, elements |-> elements, rws |-> rws]
\* cst.DictElement(key, value, comma) / cst.Element(value, comma)
Element(key, value, comma) == [key |-> key, value |-> value, comma |-> comma]

IsCollection(n) == n.type \in {"Dict", "List"}

\* module.code_for_node(node)
RECURSIVE Code(_)
RECURSIVE ElementsCode(_, _)
CommaCode(comma, default_comma) ==
    IF comma.present
    THEN WsCode(comma.wsb) \o <<Tok(",", 1)>> \o WsCode(comma.wsa)
    ELSE IF default_comma THEN <<Tok(",", 1), Tok(" ", 1)>> ELSE <<>>
ElementCode(el, default_comma) ==
    KeyCode(el.key) \o Code(el.value) \o CommaCode(el.comma, default_comma)
ElementsCode(els, i) ==
    IF i > Len(els) THEN <<>>
    ELSE ElementCode(els[i], i < Len(els)) \o ElementsCode(els, i + 1)
Code(n) ==
    IF n.type = "Scalar" THEN <<n.txt>>
    ELSE <<Tok(IF n.type = "Dict" THEN "{" ELSE "[", 1)>>
         \o WsCode(n.lws) \o ElementsCode(n.elements, 1) \o WsCode(n.rws)
         \o <<Tok(IF n.type = "Dict" THEN "}" ELSE "]", 1)>>

\* ------------------------------------------------------- update tree
None == [type |-> "None"]
\* ValueUpdate(value); parsed = cst.parse_expression(value).  The update
\* texts of the model are scalar literals, so parsed is a Scalar node.
ValueUpdate(value) == [type |-> "Value", value |-> value]
parsed(u) == Scalar(u.value)
ListUpdate(elements, allow_extra) ==
    [type |-> "List", elements |-> elements, allow_extra |-> allow_extra]
\* elements of a DictUpdate: the dict's items in insertion order, [k, v]
DictUpdate(elements, allow_extra) ==
    [type |-> "Dict", elements |-> elements, allow_extra |-> allow_extra]
Item(k, v) == [k |-> k, v |-> v]

\* plain data of an update description
PyStr(s) == [type |-> "str", value |-> s]
PyDict(items) == [type |-> "dict", elements |-> items]
PyList(items) == [type |-> "list", elements |-> items]

\* DictUpdate.from_dict: convert()
RECURSIVE convert(_)
convert(val) ==
    CASE val.type = "Value" -> val
      [] val.type = "Dict" ->
           [val EXCEPT !.elements =
               [i \in 1..Len(val.elements) |->
                   Item(val.elements[i].k, convert(val.elements[i].v))]]
      [] val.type = "List" ->
           [val EXCEPT !.elements =
               [i \in 1..Len(val.elements) |-> convert(val.elements[i])]]
      [] val.type = "str" -> ValueUpdate(val.value)
      [] val.type = "dict" ->
           DictUpdate([i \in 1..Len(val.elements) |->
               Item(val.elements[i].k, convert(val.elements[i].v))], TRUE)
      [] val.type = "list" ->
           ListUpdate([i \in 1..Len(val.elements) |-> convert(val.elements[i])],
                      TRUE)
from_dict(dicitonary) == convert(dicitonary)

RemoveAt(s, i) == [j \in 1..(Len(s) - 1) |-> IF j < i THEN s[j] ELSE s[j + 1]]

\* the least index of the set S, 0 if it is empty
FirstIndex(S) ==
    IF S = {} THEN 0 ELSE CHOOSE i \in S : \A j \in S : i <= j

\* a loop body that compares the stored key's value only, never its
\* raw_value
GetMatches_ValueOnly(k, key) ==
    /\ k # EmptyText
    /\ parse_expression(k).value = key
\* DictUpdate.get(key): the index of the stored item found, 0 for
\* (None, None), -1 when cst.parse_expression(key) raises (the empty text)
GetMatches(k, key) ==
    /\ k # EmptyText
    /\ \/ parse_expression(k).value = key
       \/ /\ parse_expression(k).kind = "SimpleString"
          /\ raw_value(parse_expression(k)) = key
\* lines 47-53: the loop over the stored keys
GetLoop(elements, key) ==
    FirstIndex({i \in 1..Len(elements) : GetMatches(elements[i].k, key)})
\* lines 42-46, target_expr = cst.parse_expression(key)
GetParsed(elements, key, target_expr) ==
    LET ByValue == {i \in 1..Len(elements) : elements[i].k = target_expr.value}
    IN  IF ByValue # {}
        THEN FirstIndex(ByValue)
        ELSE GetLoop(elements, IF target_expr.kind = "SimpleString"
                               THEN raw_value(target_expr) ELSE key)
DictUpdate_get(elements, key) ==
    LET InElements == {i \in 1..Len(elements) : elements[i].k = key}
    IN  IF InElements # {}
        THEN FirstIndex(InElements)
        ELSE IF key = EmptyText THEN -1
        ELSE GetParsed(elements, key, parse_expression(key))

\* what a pop returns.  err: "" or the exception raised; found: the update
\* popped or None; elements: the elements left
Popped(err, found, elements) ==
    [err |-> err, found |-> found, elements |-> elements]
\* DictUpdate.pop, lines 66-69: str_key, _ = self.get(str_key)
PopIndex(elements, idx) ==
    IF idx = -1 THEN Popped("ParserSyntaxError", None, elements)
    ELSE IF idx = 0 THEN Popped("", None, elements)
    ELSE Popped("", elements[idx].v, RemoveAt(elements, idx))
\* a pop without the branch for cst.Call: a call key falls through to the
\* final else
DictUpdate_pop_NoCallBranch(elements, key) ==
    CASE key.kind \in {"Name", "SimpleString"} ->
           PopIndex(elements, DictUpdate_get(elements, key.value))
      [] key.kind = "Tuple" -> Popped("", None, elements)
      [] OTHER -> Popped("TypeError: Unsupported type", None, elements)
\* DictUpdate.pop(key) for the key expression of an existing element.  A
\* Tuple key is looked up under the text built from its first two
\* elements, which no stored key of the model equals.
DictUpdate_pop(elements, key) ==
    CASE key.kind \in {"Name", "SimpleString"} ->
           PopIndex(elements, DictUpdate_get(elements, key.value))
      [] key.kind = "Tuple" -> Popped("", None, elements)
      [] key.kind = "Call" -> Popped("", None, elements)
      [] OTHER -> Popped("TypeError: Unsupported type", None, elements)

\* what a full iteration yields, whether it raised, the elements left
Iterated(yielded, err, elements) ==
    [yielded |-> yielded, err |-> err, elements |-> elements]
\* DictUpdate.__iter__
DictUpdate_iter(elements) == Iterated(elements, "", <<>>)

\* ValueUpdate.__eq__(b) for a node b: b.deep_equals(self.parsed)
ValueUpdate_eq(u, b) == b.type = "Scalar" /\ b.txt = parsed(u).txt

\* ListUpdate.pop(item): el == item is ValueUpdate.__eq__ for a stored
\* ValueUpdate and identity (False) for a stored ListUpdate or DictUpdate
ListPopIndex(elements, idx) ==
    IF idx = 0 THEN Popped("", None, elements)
    ELSE Popped("", elements[idx], RemoveAt(elements, idx))
ListUpdate_pop(elements, item) ==
    LET Eq == {i \in 1..Len(elements) :
                  elements[i].type = "Value"
                  /\ ValueUpdate_eq(elements[i], item)}
    IN  ListPopIndex(elements, FirstIndex(Eq))

\* ListUpdate.__iter__: for i in range(len(self.elements)):
\*     yield i, self.elements.pop(i)
\* n is the length taken when the loop starts, i counts from 0
RECURSIVE ListIterFrom(_, _, _, _)
ListIterFrom(cur, i, n, out) ==
    IF i >= n THEN Iterated(out, "", cur)
    ELSE IF i + 1 > Len(cur)
         THEN Iterated(out, "IndexError: pop index out of range", cur)
         ELSE ListIterFrom(RemoveAt(cur, i + 1), i + 1, n,
                           Append(out, Item(i, cur[i + 1])))
ListUpdate_iter(elements) == ListIterFrom(elements, 0, Len(elements), <<>>)

Update_iter(target) ==
    IF target.type = "Dict" THEN DictUpdate_iter(target.elements)
    ELSE ListUpdate_iter(target.elements)

\* -------------------------------------------------------- NodeVisitor
\* the width the rewriter compares line lengths with
LineBudget == 80
\* len(module.default_indent): libcst's default of four spaces
DefaultIndent == 4
\* the indent of a collapsed collection: get_collection_indent's None
NoIndent == -1

StrPart(text) == [t |-> "str", v |-> text]
IntPart(i) == [t |-> "int", v |-> i]

\* what get_target returns: err, the object and its position in the
\* update tree (the indices of the items walked through), so that what the
\* caller pops from the object is popped from the tree
Target(err, target, loc) == [err |-> err, target |-> target, loc |-> loc]

\* NodeVisitor.get_target: walks self.update along path
RECURSIVE WalkTarget(_, _, _)
WalkDict(current, rest, loc, idx) ==
    IF idx = -1 THEN Target("ParserSyntaxError", None, loc)
    ELSE IF idx = 0 THEN WalkTarget(None, rest, loc)
    ELSE WalkTarget(current.elements[idx].v, rest, Append(loc, idx))
WalkList(current, rest, loc, part) ==
    IF part < Len(current.elements)
    THEN WalkTarget(current.elements[part + 1], rest, Append(loc, part + 1))
    ELSE WalkTarget(None, rest, loc)
WalkPart(current, part, rest, loc) ==
    CASE current.type = "Dict" /\ part.t = "str" ->
           WalkDict(current, rest, loc, DictUpdate_get(current.elements, part.v))
      [] current.type = "List" /\ part.t = "int" ->
           WalkList(current, rest, loc, part.v)
      [] current.type = "None" -> Target("", None, loc)
      [] OTHER -> Target("ValueError: Invalid path", None, loc)
WalkTarget(current, current_path, loc) ==
    IF current_path = <<>> THEN Target("", current, loc)
    ELSE WalkPart(current, Head(current_path), Tail(current_path), loc)
get_target(update, path) == WalkTarget(update, path, <<>>)

\* the update tree with the elements of the object at loc replaced
RECURSIVE SetElements(_, _, _)
SetElements(u, loc, els) ==
    IF loc = <<>> THEN [u EXCEPT !.elements = els]
    ELSE IF u.type = "Dict"
         THEN [u EXCEPT !.elements[Head(loc)].v =
                           SetElements(@, Tail(loc), els)]
         ELSE [u EXCEPT !.elements[Head(loc)] =
                           SetElements(@, Tail(loc), els)]

\* NodeVisitor.get_collection_indent: (indent, is_expanded)
get_collection_indent(node) ==
    IF node.lws.par THEN [indent |-> node.lws.last, is_expanded |-> TRUE]
    ELSE [indent |-> NoIndent, is_expanded |-> FALSE]

Min(a, b) == IF a < b THEN a ELSE b

\* NodeVisitor.offset_indent on an indent of spaces, given by its length
offset_indent(indent, offset) ==
    IF offset < 0
    THEN indent - DefaultIndent * Min(0 - offset, indent \div DefaultIndent)
    ELSE indent + DefaultIndent * offset

\* NodeVisitor.new_element
new_element(target, value, key) ==
    IF target.type = "Dict" THEN Element(key, value, DefaultComma)
    ELSE Element(NoKey, value, DefaultComma)

\* cst.parse_expression(str(key)) for a key yielded by an update's iterator
ParseYieldedKey(target, key) ==
    IF target.type = "Dict" THEN parse_expression(key)
    ELSE [kind |-> "Integer", value |-> EmptyText]

\* what new_collection returns: err, or the node built
Built(err, node) == [err |-> err, node |-> node]
NoNode == Scalar(Tok("", 0))

\* NodeVisitor.new_collection
RECURSIVE new_collection(_)
NewValue(u) ==
    IF u.type = "Value" THEN Built("", parsed(u)) ELSE new_collection(u)
\* the exception the loop body raises for the i-th pair, "" if none
NewElementError(target, pair, val) ==
    IF val.err # "" THEN val.err
    ELSE IF target.type = "Dict" /\ pair.k = EmptyText
    THEN "ParserSyntaxError" ELSE ""
NewCollectionOf(target, it, vals, errs) ==
    LET Bad == {i \in 1..Len(errs) : errs[i] # ""}
    IN  IF Bad # {}
        THEN Built(errs[FirstIndex(Bad)], NoNode)
        ELSE IF it.err # "" THEN Built(it.err, NoNode)
        ELSE Built("", Collection(target.type, SimpleWhitespace(0),
                 [i \in 1..Len(vals) |->
                     new_element(target, vals[i].node,
                                 ParseYieldedKey(target, it.yielded[i].k))],
                 SimpleWhitespace(0)))
NewCollectionVals(target, it, vals) ==
    NewCollectionOf(target, it, vals,
        [i \in 1..Len(vals) |->
            NewElementError(target, it.yielded[i], vals[i])])
NewCollectionFrom(target, it) ==
    NewCollectionVals(target, it,
        [i \in 1..Len(it.yielded) |-> NewValue(it.yielded[i].v)])
new_collection(target) == NewCollectionFrom(target, Update_iter(target))

\* NodeVisitor.format_collection
FormatDelim(ws, is_expanded, indent) ==
    IF is_expanded
    THEN IF ws.par THEN [ws EXCEPT !.last = indent]
         ELSE ParenthesizedWhitespace(<<>>, indent)
    ELSE SimpleWhitespace(0)
FormatComma(comma, indent, is_expanded) ==
    IF ~comma.present THEN comma
    ELSE IF is_expanded
    THEN [comma EXCEPT !.wsa =
             IF comma.wsa.par THEN [comma.wsa EXCEPT !.last = indent]
             ELSE ParenthesizedWhitespace(<<>>, indent)]
    ELSE Comma(SimpleWhitespace(0), SimpleWhitespace(1))
FormatLast(has_trailing_comma) ==
    IF has_trailing_comma
    THEN Comma(SimpleWhitespace(0), SimpleWhitespace(0))
    ELSE DefaultComma
FormatElements(elements, indent, is_expanded, has_trailing_comma) ==
    [i \in 1..Len(elements) |->
        [elements[i] EXCEPT !.comma =
            IF i = Len(elements) THEN FormatLast(has_trailing_comma)
            ELSE FormatComma(@, indent, is_expanded)]]
FormatWith(node, base_indent, inner, is_expanded, has_trailing_comma) ==
    [node EXCEPT
        !.elements = FormatElements(@, inner, is_expanded, has_trailing_comma),
        !.lws = FormatDelim(@, is_expanded, inner),
        !.rws = FormatDelim(@, is_expanded, base_indent)]
format_collection(node, base_indent, is_expanded, has_trailing_comma) ==
    FormatWith(node, base_indent, offset_indent(base_indent, 1), is_expanded,
               has_trailing_comma)

Last(s) == s[Len(s)]
Front(s) == SubSeq(s, 1, Len(s) - 1)

\* update_collection, lines 389-405: every existing element is looked up
\* in (and popped from) the target.  telems: the target's elements so far;
\* pops: what each lookup did.
Matched(err, new_elements, elements, pops) ==
    [err |-> err, new_elements |-> new_elements, elements |-> elements,
     pops |-> pops]
\* lines 393-405: the elements an existing element el contributes
Kept(target, el, update) ==
    CASE update.type = "Value" ->
           IF ~ValueUpdate_eq(update, el.value)
           THEN <<[el EXCEPT !.value = parsed(update)]>>
           ELSE <<el>>
      [] update.type \in {"Dict", "List"} -> <<el>>
      [] OTHER -> IF target.allow_extra THEN <<el>> ELSE <<>>
\* lines 391-392
TargetPop(target, telems, el) ==
    IF target.type = "Dict" THEN DictUpdate_pop(telems, el.key)
    ELSE ListUpdate_pop(telems, el.value)
PopRecord(i, el, telems, r, kept) ==
    [i |-> i, key |-> el.key, found |-> r.found, before |-> telems,
     after |-> r.elements, err |-> r.err, kept |-> kept]
RECURSIVE MatchLoop(_, _, _, _, _, _)
MatchKept(target, els, i, telems, new_elements, pops, r, kept) ==
    IF r.err # ""
    THEN Matched(r.err, new_elements, telems,
                 Append(pops, PopRecord(i, els[i], telems, r, <<>>)))
    ELSE MatchLoop(target, els, i + 1, r.elements, new_elements \o kept,
                   Append(pops, PopRecord(i, els[i], telems, r, kept)))
MatchStep(target, els, i, telems, new_elements, pops, r) ==
    MatchKept(target, els, i, telems, new_elements, pops, r,
              IF r.err # "" THEN <<>> ELSE Kept(target, els[i], r.found))
MatchLoop(target, els, i, telems, new_elements, pops) ==
    IF i > Len(els) THEN Matched("", new_elements, telems, pops)
    ELSE MatchStep(target, els, i, telems, new_elements, pops,
                   TargetPop(target, telems, els[i]))

\* update_collection, lines 416-441: one element per pair the iteration
\* of the target yields.  c: the call's node, target, base_indent and
\* has_trailing_comma
Appended(err, new_elements) == [err |-> err, new_elements |-> new_elements]
\* lines 417-419
YieldedKey(target, k) ==
    IF target.type = "Dict" /\ k = EmptyText
    THEN [kind |-> "SimpleString", value |-> KeyText("\"", Tok("", 0))]
    ELSE ParseYieldedKey(target, k)
WithChanges(target, el, update, key) ==
    IF target.type = "Dict"
    THEN [el EXCEPT !.value = parsed(update), !.key = key]
    ELSE [el EXCEPT !.value = parsed(update)]
\* lines 420-430: the element for a leftover ValueUpdate
ScalarElement(c, new_elements, update, key) ==
    IF Len(new_elements) # 0
    THEN WithChanges(c.target, Last(new_elements), update, key)
    ELSE IF Len(c.node.elements) # 0
    THEN WithChanges(c.target, c.node.elements[1], update, key)
    ELSE new_element(c.target, parsed(update), key)
\* lines 433-440: the element for a leftover DictUpdate or ListUpdate
FitElement(c, new_el, indent) ==
    IF TextLen(ElementCode(new_el, FALSE)) + indent > LineBudget
    THEN [new_el EXCEPT !.value =
             format_collection(@, indent, TRUE, c.has_trailing_comma)]
    ELSE new_el
CollectionElement(c, new_val, key) ==
    FitElement(c, new_element(c.target, new_val, key),
               offset_indent(c.base_indent, 1))
RECURSIVE AppendLoop(_, _, _, _)
AppendCollection(c, yielded, i, new_elements, key, nc) ==
    IF nc.err # "" THEN Appended(nc.err, new_elements)
    ELSE AppendLoop(c, yielded, i + 1,
                    Append(new_elements, CollectionElement(c, nc.node, key)))
AppendStep(c, yielded, i, new_elements, update, key) ==
    IF update.type = "Value"
    THEN AppendLoop(c, yielded, i + 1,
                    Append(new_elements,
                           ScalarElement(c, new_elements, update, key)))
    ELSE AppendCollection(c, yielded, i, new_elements, key,
                          new_collection(update))
AppendLoop(c, yielded, i, new_elements) ==
    IF i > Len(yielded) THEN Appended("", new_elements)
    ELSE AppendStep(c, yielded, i, new_elements, yielded[i].v,
                    YieldedKey(c.target, yielded[i].k))

\* what update_collection reports of one call.  err: "" or the exception
\* raised; node: the node returned; indent_stack and elements (of the
\* target, at loc in the update tree): as the call leaves them
Outcome(err, node, indent_stack, loc, elements, base_indent, target, details) ==
    [err |-> err, node |-> node, indent_stack |-> indent_stack, loc |-> loc,
     elements |-> elements, base_indent |-> base_indent, target |-> target,
     details |-> details]
NoDetails ==
    [has_trailing_comma |-> FALSE, allow_extra |-> FALSE, pops |-> <<>>,
     retained |-> <<>>, remaining |-> <<>>, line_len |-> 0,
     was_expanded |-> FALSE, is_expanded |-> FALSE, reconciled |-> FALSE]
Details(c, pops, retained, remaining, line_len, is_expanded) ==
    [has_trailing_comma |-> c.has_trailing_comma,
     allow_extra |-> c.target.allow_extra, pops |-> pops,
     retained |-> retained, remaining |-> remaining, line_len |-> line_len,
     was_expanded |-> c.is_expanded, is_expanded |-> is_expanded,
     reconciled |-> TRUE]
Failed(c, err, elements, details) ==
    Outcome(err, c.node, c.stack, c.loc, elements, c.base_indent,
            c.target.type, details)

\* lines 383-387
HasTrailingComma(original) ==
    Len(original.elements) > 0 /\ Last(original.elements).comma.present
\* lines 407-410: the last retained element takes a comma followed by the
\* closing delimiter's whitespace
Retained(new_elements, right_ws) ==
    IF Len(new_elements) > 0
    THEN Append(Front(new_elements),
                [Last(new_elements) EXCEPT !.comma =
                    Comma(SimpleWhitespace(0), right_ws)])
    ELSE new_elements
\* lines 449-456
Finish(c, m, retained, it, node, line_len, is_expanded) ==
    Outcome("", format_collection(node, c.base_indent, is_expanded,
                                  is_expanded /\ c.has_trailing_comma),
            c.stack, c.loc, it.elements, c.base_indent, c.target.type,
            Details(c, m.pops, retained, m.elements, line_len, is_expanded))
Measure(c, m, retained, it, node, line_len) ==
    Finish(c, m, retained, it, node, line_len,
           IF ~c.is_expanded THEN line_len > LineBudget ELSE TRUE)
\* lines 443-448
Rebuild(c, m, retained, it, node) ==
    Measure(c, m, retained, it, node,
            IF ~c.is_expanded THEN MaxLine(Code(node), 0, 0) ELSE 0)
\* lines 411-441
Drained(c, m, retained, it, a) ==
    IF a.err # ""
    THEN Failed(c, a.err, it.elements,
                Details(c, m.pops, retained, m.elements, 0, c.is_expanded))
    ELSE IF it.err # ""
    THEN Failed(c, it.err, it.elements,
                Details(c, m.pops, retained, m.elements, 0, c.is_expanded))
    ELSE Rebuild(c, m, retained, it,
                 [c.node EXCEPT !.elements = a.new_elements,
                                !.rws = IF Len(m.elements) > 0
                                        THEN SimpleWhitespace(0) ELSE @])
Drain(c, m, retained, it) ==
    Drained(c, m, retained, it, AppendLoop(c, it.yielded, 1, retained))
AfterMatch(c, m) ==
    IF m.err # ""
    THEN Failed(c, m.err, m.elements,
                Details(c, m.pops, <<>>, <<>>, 0, c.is_expanded))
    ELSE Drain(c, m, Retained(m.new_elements, c.node.rws),
               Update_iter([c.target EXCEPT !.elements = m.elements]))
\* update_collection, lines 383-459, for a target of the node's kind
Reconcile(c) ==
    AfterMatch(c, MatchLoop(c.target, c.node.elements, 1, c.target.elements,
                            <<>>, <<>>))

\* the values a call of update_collection works with
Context(original, node, base_indent, is_expanded, stack, tg) ==
    [node |-> node, base_indent |-> base_indent, is_expanded |-> is_expanded,
     stack |-> stack, target |-> tg.target, loc |-> tg.loc,
     has_trailing_comma |-> HasTrailingComma(original)]
\* lines 362-381
CheckTarget(c, tg) ==
    CASE tg.err # "" -> Failed(c, tg.err, <<>>, NoDetails)
      [] tg.err = "" /\ c.target.type = "None" ->
           Outcome("", c.node, c.stack, <<>>, <<>>, c.base_indent, "None",
                   NoDetails)
      [] tg.err = "" /\ c.target.type = "Dict" /\ c.node.type # "Dict" ->
           Failed(c, "TypeError: Got DictUpdate but node is not a dictionary!",
                  <<>>, NoDetails)
      [] tg.err = "" /\ c.target.type = "List" /\ c.node.type # "List" ->
           Failed(c, "TypeError: Got ListUpdate but node is not a list!",
                  <<>>, NoDetails)
      [] tg.err = "" /\ c.target.type = "Value" ->
           Failed(c, "TypeError: Got ValueUpdate for a collection!", <<>>,
                  NoDetails)
      [] OTHER -> Reconcile(c)
\* lines 355-359, for a stack that is not empty
ResolveIndent(original, node, indent_stack, ci, tg) ==
    IF ci.indent = Last(indent_stack)
    THEN CheckTarget(Context(original, node,
                             offset_indent(Last(indent_stack), -1),
                             ci.is_expanded, Front(indent_stack), tg), tg)
    ELSE CheckTarget(Context(original, node, Last(indent_stack),
                             ci.is_expanded, indent_stack, tg), tg)
\* NodeVisitor.update_collection (leave of a Dict or List)
update_collection(original, node, path, indent_stack, update) ==
    IF indent_stack = <<>>
    THEN Outcome("IndexError: list index out of range", node, indent_stack,
                 <<>>, <<>>, 0, "None", NoDetails)
    ELSE ResolveIndent(original, node, indent_stack,
                       get_collection_indent(node), get_target(update, path))

\* ------------------------------------------------------------ inputs
\* the number of rewrites (NodeVisitor instances) of one behaviour
MaxRuns == 2
\* the number of items of a DictUpdate the matcher is tried on
MaxItems == 2

Simple0 == SimpleWhitespace(0)
CommaSpace == Comma(Simple0, SimpleWhitespace(1))
TrailingComma == Comma(Simple0, Simple0)
CommaNewline(n) == Comma(Simple0, ParenthesizedWhitespace(<<>>, n))
Name(n) == [kind |-> "Name", value |-> KeyText("", n)]
DQ(n) == [kind |-> "SimpleString", value |-> KeyText("\"", n)]
SQ(n) == [kind |-> "SimpleString", value |-> KeyText("'", n)]
CallKey == [kind |-> "Call", value |-> KeyText("", Tok("f()", 3))]
IntegerKey == [kind |-> "Integer", value |-> KeyText("", Tok("7", 1))]

tA == Tok("a", 1)
tB == Tok("b", 1)
tGo == Tok("go", 2)
tStop == Tok("stop", 4)
tM == Tok("M", 1)
tStart == Tok("start", 5)
v1 == Tok("1", 1)
v2 == Tok("2", 1)
vNext == Tok("\"next\"", 6)
vOther == Tok("\"other\"", 7)
vEnd == Tok("\"end\"", 5)
\* a string literal of 40 characters
vWide == Tok("\"<38 characters>\"", 40)
Comment == <<Tok(" ", 1), Tok(" ", 1), Tok("# c", 3)>>

CollapsedDict(elements) == Collection("Dict", Simple0, elements, Simple0)
CollapsedList(elements) == Collection("List", Simple0, elements, Simple0)

\* the literals nested in the sources
Children == {
    \* {"go": "next"}
    CollapsedDict(<<Element(DQ(tGo), Scalar(vNext), DefaultComma)>>),
    \* {"go": "<40 characters>"}
    CollapsedDict(<<Element(DQ(tGo), Scalar(vWide), DefaultComma)>>),
    \* { "a": 1,"b": 2, }
    Collection("Dict", SimpleWhitespace(1),
               <<Element(DQ(tA), Scalar(v1), TrailingComma),
                 Element(DQ(tB), Scalar(v2), TrailingComma)>>,
               SimpleWhitespace(1)),
    \* {"a": 1, "b": 2}
    CollapsedDict(<<Element(DQ(tA), Scalar(v1), CommaSpace),
                    Element(DQ(tB), Scalar(v2), DefaultComma)>>),
    \* {a: 1, 'b': 2}
    CollapsedDict(<<Element(Name(tA), Scalar(v1), CommaSpace),
                    Element(SQ(tB), Scalar(v2), DefaultComma)>>),
    \* an expanded dict, a comment after the first comma
    Collection("Dict", ParenthesizedWhitespace(<<>>, 8),
               <<Element(DQ(tA), Scalar(v1),
                         Comma(Simple0, ParenthesizedWhitespace(Comment, 8))),
                 Element(DQ(tB), Scalar(v2), TrailingComma)>>,
               ParenthesizedWhitespace(<<>>, 4)),
    \* an expanded dict, both elements on one line, no trailing comma
    Collection("Dict", ParenthesizedWhitespace(<<>>, 8),
               <<Element(DQ(tA), Scalar(v1), CommaSpace),
                 Element(DQ(tB), Scalar(v2), DefaultComma)>>,
               ParenthesizedWhitespace(<<>>, 4)),
    \* {f(): 1, "a": 1}
    CollapsedDict(<<Element(CallKey, Scalar(v1), CommaSpace),
                    Element(DQ(tA), Scalar(v1), DefaultComma)>>),
    \* {7: 1, "a": 1}
    CollapsedDict(<<Element(IntegerKey, Scalar(v1), CommaSpace),
                    Element(DQ(tA), Scalar(v1), DefaultComma)>>),
    \* []
    CollapsedList(<<>>),
    \* [1, 2]
    CollapsedList(<<Element(NoKey, Scalar(v1), CommaSpace),
                    Element(NoKey, Scalar(v2), DefaultComma)>>),
    \* [{"a": 1}]
    CollapsedList(<<Element(NoKey,
        CollapsedDict(<<Element(DQ(tA), Scalar(v1), DefaultComma)>>),
        DefaultComma)>>) }

\* X = {
\*     "M": <child>,
\* }
ExpandedRoot(child) ==
    Collection("Dict", ParenthesizedWhitespace(<<>>, 4),
               <<Element(DQ(tM), child, TrailingComma)>>,
               ParenthesizedWhitespace(<<>>, 0))
\* X = {"start": {"M": {"go": "next"}}}
Example1 ==
    CollapsedDict(<<Element(DQ(tStart),
        CollapsedDict(<<Element(DQ(tM),
            CollapsedDict(<<Element(DQ(tGo), Scalar(vNext), DefaultComma)>>),
            DefaultComma)>>),
        DefaultComma)>>)
Sources == {Example1} \cup {ExpandedRoot(c) : c \in Children}

\* the update descriptions for the literal under "M"
ChildDescs == {
    PyDict(<<Item(KeyText("", tGo), PyStr(vOther))>>),
    PyDict(<<Item(KeyText("", tGo), PyStr(vNext))>>),
    PyDict(<<Item(KeyText("\"", tStop), PyStr(vEnd))>>),
    PyDict(<<Item(KeyText("\"", tStop), PyStr(vWide))>>),
    PyDict(<<Item(KeyText("", tA), PyStr(v1)),
             Item(KeyText("'", tB), PyStr(v2))>>),
    PyDict(<<Item(KeyText("\"", tA), PyStr(v2))>>),
    PyDict(<<>>),
    DictUpdate(<<Item(KeyText("\"", tA), PyStr(v1))>>, FALSE),
    PyList(<<PyStr(v1), PyStr(v2)>>),
    PyList(<<PyStr(v1), PyStr(v2), PyStr(v1)>>),
    PyList(<<PyList(<<PyStr(v1)>>)>>),
    PyList(<<PyDict(<<Item(KeyText("\"", tA), PyStr(v2))>>)>>) }
Descs ==
    {PyDict(<<Item(KeyText("", tStart),
          PyDict(<<Item(KeyText("", tM),
              PyDict(<<Item(KeyText("", tGo), PyStr(vOther))>>))>>))>>)}
    \cup {PyDict(<<Item(KeyText("", tM), d)>>) : d \in ChildDescs}

\* ------------------------------------------------------------ the tree
RECURSIVE NodeAt(_, _)
NodeAt(tree, cursor) ==
    IF cursor = <<>> THEN tree
    ELSE NodeAt(tree.elements[Head(cursor)].value, Tail(cursor))
ElementAt(tree, cursor) == NodeAt(tree, Front(cursor)).elements[Last(cursor)]
RECURSIVE ReplaceAt(_, _, _)
ReplaceAt(tree, cursor, node) ==
    IF cursor = <<>> THEN node
    ELSE [tree EXCEPT !.elements[Head(cursor)].value =
                         ReplaceAt(@, Tail(cursor), node)]

\* ------------------------------------------------------------- state
VARIABLES
    path,          \* NodeVisitor.path, a class attribute
    indent_stack,  \* NodeVisitor.indent_stack, a class attribute
    update,        \* self.update of the running visitor
    original,      \* the literal the running visitor was given
    tree,          \* the literal with the nodes left so far replaced
    cursor,        \* the element indices from the root to the current node
    pc,            \* where the traversal stands
    desc,          \* the description self.update was built from
    again,         \* the visitor runs on the output of the one before it
    prev_out,      \* that output
    runs,          \* visitors constructed so far
    log            \* what the last update_collection wrote and did

vars == <<path, indent_stack, update, original, tree, cursor, pc, desc,
          again, prev_out, runs, log>>

NoLog == [op |-> "none"]

Init ==
    /\ path = <<>>
    /\ indent_stack = <<>>
    /\ update = DictUpdate(<<>>, TRUE)
    /\ original = CollapsedDict(<<>>)
    /\ tree = CollapsedDict(<<>>)
    /\ cursor = <<>>
    /\ pc = "idle"
    /\ desc = PyDict(<<>>)
    /\ again = FALSE
    /\ prev_out = CollapsedDict(<<>>)
    /\ runs = 0
    /\ log = NoLog

\* NodeVisitor(update, module) and tree.visit(visitor), up to the root
Start(src, d) ==
    /\ runs < MaxRuns
    /\ runs' = runs + 1
    /\ update' = from_dict(d)
    /\ desc' = d
    /\ original' = src
    /\ tree' = src
    /\ cursor' = <<>>
    /\ pc' = "visitNode"
    /\ log' = NoLog
    /\ UNCHANGED <<path, indent_stack>>

\* a rewrite of a source, after any earlier one has ended
Rewrite ==
    /\ pc \in {"idle", "done", "error"}
    /\ \E src \in Sources, d \in Descs : Start(src, d)
    /\ again' = FALSE
    /\ prev_out' = CollapsedDict(<<>>)

\* a rewrite of the output of the rewrite before, with a fresh update tree
\* of the same description
RewriteAgain ==
    /\ pc = "done"
    /\ Start(tree, desc)
    /\ again' = TRUE
    /\ prev_out' = tree

\* on_visit of a Dict or List: count_indent, then its first element
count_indent ==
    /\ pc = "visitNode"
    /\ LET node == NodeAt(tree, cursor)
           ci == get_collection_indent(node)
       IN  /\ indent_stack' = IF ci.indent # NoIndent
                              THEN Append(indent_stack, ci.indent)
                              ELSE indent_stack
           /\ IF Len(node.elements) > 0
              THEN pc' = "visitElem" /\ cursor' = Append(cursor, 1)
              ELSE pc' = "leaveNode" /\ cursor' = cursor
    /\ UNCHANGED <<path, update, original, tree, desc, again, prev_out, runs,
                   log>>

ParentType == NodeAt(tree, Front(cursor)).type

\* visit_DictElement, then the element's value if it is a collection
visit_DictElement ==
    /\ pc = "visitElem"
    /\ ParentType = "Dict"
    /\ LET node == ElementAt(tree, cursor)
       IN  IF node.key.kind \in {"Name", "SimpleString"}
           THEN /\ path' = Append(path, StrPart(node.key.value))
                /\ pc' = IF IsCollection(node.value) THEN "visitNode"
                         ELSE "leaveElem"
           ELSE /\ path' = Append(path, StrPart(EmptyText))
                /\ pc' = "leaveElem"
    /\ UNCHANGED <<indent_stack, update, original, tree, cursor, desc, again,
                   prev_out, runs, log>>

\* on_visit of an Element of a list: no handler, its value is visited
visit_Element ==
    /\ pc = "visitElem"
    /\ ParentType = "List"
    /\ pc' = IF IsCollection(ElementAt(tree, cursor).value) THEN "visitNode"
             ELSE "leaveElem"
    /\ UNCHANGED <<path, indent_stack, update, original, tree, cursor, desc,
                   again, prev_out, runs, log>>

\* after an element is left: its next sibling, or the leave of its parent
AfterElement ==
    IF Last(cursor) < Len(NodeAt(tree, Front(cursor)).elements)
    THEN pc' = "visitElem" /\ cursor' = Append(Front(cursor), Last(cursor) + 1)
    ELSE pc' = "leaveNode" /\ cursor' = Front(cursor)

\* leave_DictElement
leave_DictElement ==
    /\ pc = "leaveElem"
    /\ ParentType = "Dict"
    /\ path' = Front(path)
    /\ AfterElement
    /\ UNCHANGED <<indent_stack, update, original, tree, desc, again,
                   prev_out, runs, log>>

\* on_leave of an Element of a list: no handler
leave_Element ==
    /\ pc = "leaveElem"
    /\ ParentType = "List"
    /\ AfterElement
    /\ UNCHANGED <<path, indent_stack, update, original, tree, desc, again,
                   prev_out, runs, log>>

\* on_leave of a Dict or List: update_collection.  An exception ends the
\* traversal where it stands.
Left(node, r) ==
    /\ log' = [op |-> "update_collection", path |-> path, cursor |-> cursor,
               indent_stack |-> indent_stack, before |-> node, out |-> r]
    /\ indent_stack' = r.indent_stack
    /\ update' = IF r.details.reconciled
                 THEN SetElements(update, r.loc, r.elements)
                 ELSE update
    /\ IF r.err # ""
       THEN pc' = "error" /\ tree' = tree
       ELSE /\ tree' = ReplaceAt(tree, cursor, r.node)
            /\ pc' = IF cursor = <<>> THEN "done" ELSE "leaveElem"
leave_Collection ==
    /\ pc = "leaveNode"
    /\ Left(NodeAt(tree, cursor),
            update_collection(NodeAt(original, cursor), NodeAt(tree, cursor),
                              path, indent_stack, update))
    /\ UNCHANGED <<path, original, cursor, desc, again, prev_out, runs>>

Next ==
    \/ Rewrite
    \/ RewriteAgain
    \/ count_indent
    \/ visit_DictElement
    \/ visit_Element
    \/ leave_DictElement
    \/ leave_Element
    \/ leave_Collection

Spec == Init /\ [][Next]_vars

\* ------------------------------------------------- the matcher alone
\* DictUpdate.get, pop and __iter__ applied to a DictUpdate of any
\* MaxItems items whose keys are spellings of two names
Names == {tA, tB}
StoredKeys == {KeyText(q, n) : q \in {"", "\"", "'"}, n \in Names}
                  \cup {EmptyText}
StoredItems ==
    {Item(k, ValueUpdate(IF k.q = "" THEN v1 ELSE v2)) : k \in StoredKeys}
ExistingKeys ==
    {Name(n) : n \in Names} \cup {DQ(n) : n \in Names}
        \cup {SQ(n) : n \in Names} \cup {CallKey, IntegerKey}
ItemSeqs ==
    {s \in UNION {[1..n -> StoredItems] : n \in 0..MaxItems} :
        \A i, j \in 1..Len(s) : s[i].k = s[j].k => i = j}

MatcherInit ==
    /\ path = <<>>
    /\ indent_stack = <<>>
    /\ update \in {DictUpdate(s, TRUE) : s \in ItemSeqs}
    /\ original = CollapsedDict(<<>>)
    /\ tree = CollapsedDict(<<>>)
    /\ cursor = <<>>
    /\ pc = "matcher"
    /\ desc = PyDict(<<>>)
    /\ again = FALSE
    /\ prev_out = CollapsedDict(<<>>)
    /\ runs = 0
    /\ log = NoLog

MatcherFrame ==
    UNCHANGED <<path, indent_stack, original, tree, cursor, pc, desc, again,
                prev_out, runs>>

\* key, value = update.get(key)
Get ==
    /\ pc = "matcher"
    /\ \E key \in StoredKeys \ {EmptyText} :
          log' = [op |-> "get", key |-> key, before |-> update.elements,
                  idx |-> DictUpdate_get(update.elements, key)]
    /\ update' = update
    /\ MatcherFrame

Popping(key, r) ==
    /\ log' = [op |-> "pop", key |-> key, before |-> update.elements,
               out |-> r]
    /\ update' = [update EXCEPT !.elements = r.elements]
\* update.pop(key) for the key of an existing element
Pop ==
    /\ pc = "matcher"
    /\ \E key \in ExistingKeys :
          Popping(key, DictUpdate_pop(update.elements, key))
    /\ MatcherFrame

Iterating(it) ==
    /\ log' = [op |-> "iter", before |-> update.elements, out |-> it]
    /\ update' = [update EXCEPT !.elements = it.elements]
\* list(update)
Iterate ==
    /\ pc = "matcher"
    /\ Iterating(Update_iter(update))
    /\ MatcherFrame

MatcherNext == Get \/ Pop \/ Iterate
MatcherSpec == MatcherInit /\ [][MatcherNext]_vars

\* ------------------------------------------------------------ claims
Left_(l) == l.op = "update_collection"
Reconciled == Left_(log) /\ log.out.details.reconciled
Completed == Reconciled /\ log.out.err = ""
Pops == log.out.details.pops

\* the update u asks for what the node already holds: every entry has a
\* counterpart of equal value, none is new
RECURSIVE IsIdentity(_, _)
IsIdentity(u, node) ==
    CASE u.type = "Dict" /\ node.type = "Dict" ->
           \A i \in 1..Len(u.elements) :
              \E j \in 1..Len(node.elements) :
                 /\ node.elements[j].key.kind \in {"Name", "SimpleString"}
                 /\ node.elements[j].key.value.name = u.elements[i].k.name
                 /\ IF u.elements[i].v.type = "Value"
                    THEN ValueUpdate_eq(u.elements[i].v, node.elements[j].value)
                    ELSE IsIdentity(u.elements[i].v, node.elements[j].value)
      [] u.type = "List" /\ node.type = "List" ->
           /\ Len(u.elements) = Len(node.elements)
           /\ \A i \in 1..Len(u.elements) :
                 IF u.elements[i].type = "Value"
                 THEN ValueUpdate_eq(u.elements[i], node.elements[i].value)
                 ELSE IsIdentity(u.elements[i], node.elements[i].value)
      [] OTHER -> FALSE

\* C1: a rewrite whose update equals what the literal holds returns the
\* literal's text byte for byte
C1_RoundTrip ==
    (pc = "done" /\ IsIdentity(from_dict(desc), original))
        => Code(tree) = Code(original)

\* C2: the rewrite of a rewrite's output with a fresh update tree of the
\* same description ends normally and returns that output unchanged
C2_Idempotence ==
    (again /\ pc \in {"done", "error"})
        => (pc = "done" /\ Code(tree) = Code(prev_out))

\* every element on a line of its own at indent, the last with a comma
OnePerLine(node, indent) ==
    /\ node.lws.par /\ node.lws.last = indent
    /\ \A i \in 1..Len(node.elements) :
          /\ node.elements[i].comma.present
          /\ i < Len(node.elements) =>
                /\ node.elements[i].comma.wsa.par
                /\ node.elements[i].comma.wsa.last = indent

\* C3: a collapsed collection that received new elements is expanded, one
\* element per line at base_indent+1 with a trailing comma, when its
\* single-line rendering exceeds 80 columns, and stays collapsed otherwise
C3_InsertRewrap ==
    (Completed /\ ~log.out.details.was_expanded
               /\ log.out.details.remaining # <<>>)
        => IF log.out.details.line_len > LineBudget
           THEN OnePerLine(log.out.node,
                           log.out.base_indent + DefaultIndent)
           ELSE ~log.out.node.lws.par

\* C4: under allowExtra, an element that matches no update entry keeps its
\* position and its text: key, value, comma and the whitespace after it
C4_ExtraPreserved ==
    (Completed /\ log.out.details.allow_extra)
        => \A n \in 1..Len(Pops) :
              Pops[n].found = None =>
                 /\ Pops[n].i <= Len(log.out.node.elements)
                 /\ ElementCode(log.out.node.elements[Pops[n].i],
                                Pops[n].i < Len(log.out.node.elements))
                    = ElementCode(log.before.elements[Pops[n].i],
                                  Pops[n].i < Len(log.before.elements))

\* the update of the n-th entry left in the target after the matching
Leftover(n) ==
    IF log.out.target = "Dict" THEN log.out.details.remaining[n].v
    ELSE log.out.details.remaining[n]

\* C5: the iteration of the target after the matching ends without error
\* and every entry left becomes one appended element, in stored order
C5_DrainAppends ==
    (Reconciled /\ \A n \in 1..Len(Pops) : Pops[n].err = "")
        => /\ log.out.err = ""
           /\ Len(log.out.node.elements)
                 = Len(log.out.details.retained)
                      + Len(log.out.details.remaining)
           /\ \A n \in 1..Len(log.out.details.remaining) :
                 LET el == log.out.node.elements[
                               Len(log.out.details.retained) + n]
                 IN  IF Leftover(n).type = "Value"
                     THEN el.value = parsed(Leftover(n))
                     ELSE el.value.type = Leftover(n).type

\* C6: a rewrite starts with an empty path and an empty indentation stack
C6_FreshTraversalState ==
    (pc = "visitNode" /\ cursor = <<>>)
        => (path = <<>> /\ indent_stack = <<>>)

\* C7: leaving a collection with no expanded ancestor on the stack gives
\* the empty base indent and no error
C7_BaseIndentDefined ==
    (Left_(log) /\ log.indent_stack = <<>>)
        => /\ log.out.err # "IndexError: list index out of range"
           /\ log.out.base_indent = 0

\* the keys and indices from the root of the literal to the node at cursor
RECURSIVE ExactPath(_, _)
ExactPath(node, c) ==
    IF c = <<>> THEN <<>>
    ELSE <<IF node.type = "Dict"
           THEN StrPart(node.elements[Head(c)].key.value)
           ELSE IntPart(Head(c) - 1)>>
         \o ExactPath(node.elements[Head(c)].value, Tail(c))

\* C10: when a collection is left, the path is the sequence of keys and
\* indices from the root to it
C10_PathFollowsPosition ==
    Left_(log) => log.path = ExactPath(original, log.cursor)

\* C8 as stated: no key of an unsupported shape (a call or any expression
\* that is no identifier, string or tuple) aborts the rewrite; its lookup
\* reports no match
C8_AnyShapeNoMatch ==
    Reconciled =>
        \A n \in 1..Len(Pops) :
           Pops[n].key.kind \notin {"Name", "SimpleString", "Tuple", "None"}
              => (Pops[n].err = "" /\ Pops[n].found = None)

\* C8: the lookup of a call-expression key raises nothing, reports no
\* match and leaves the target unchanged; the element is kept when the
\* target's allow_extra is true and dropped when it is false
C8_CallKeyNoMatch ==
    Reconciled =>
        \A n \in 1..Len(Pops) :
           Pops[n].key.kind = "Call" =>
              /\ Pops[n].err = ""
              /\ Pops[n].found = None
              /\ Pops[n].after = Pops[n].before
              /\ Pops[n].kept = IF log.out.details.allow_extra
                                THEN <<log.before.elements[Pops[n].i]>>
                                ELSE <<>>
              /\ log.out.err = "" =>
                    ((\E j \in 1..Len(log.out.node.elements) :
                         log.out.node.elements[j].key.kind = "Call")
                     <=> log.out.details.allow_extra)
\* a call-keyed element was dropped under allow_extra = false while the
\* element after it was matched
C8_Witness ==
    /\ Completed
    /\ ~log.out.details.allow_extra
    /\ \E n \in 1..Len(Pops) : Pops[n].key.kind = "Call"
    /\ \E n \in 1..Len(Pops) : Pops[n].found # None

\* the stored items whose key spells the name of the key looked up
SameName(before, key) ==
    {i \in 1..Len(before) : before[i].k # EmptyText
                            /\ before[i].k.name = key.name}

\* C9: get and pop find a stored entry of the same name whatever the two
\* spellings, pop removes that entry alone, and a key of another name
\* finds and removes nothing
C9_KeySpelling ==
    /\ log.op = "get" =>
          IF SameName(log.before, log.key) # {}
          THEN log.idx \in SameName(log.before, log.key)
          ELSE log.idx = 0
    /\ (log.op = "pop" /\ log.key.kind \in {"Name", "SimpleString"}) =>
          IF SameName(log.before, log.key.value) # {}
          THEN \E i \in SameName(log.before, log.key.value) :
                  /\ log.out.found = log.before[i].v
                  /\ log.out.elements = RemoveAt(log.before, i)
          ELSE log.out.found = None /\ log.out.elements = log.before
\* a bare identifier popped an entry stored under a quoted spelling
C9_Witness ==
    /\ log.op = "pop"
    /\ log.key.kind = "Name"
    /\ log.out.found # None
    /\ Len(log.before) = MaxItems
    /\ \A i \in 1..Len(log.before) : log.before[i].k # log.key.value
====
